---- MODULE Spec2Model ----
(***************************************************************************)
(* Trade-ops reconciliation platform: the engine drivers                   *)
(* (reconcile_trades.py, reconcile_positions_cash.py, calculate_pnl.py),   *)
(* the relational store they write to, the pipeline_runs audit table and   *)
(* the dashboard reader; the data generator's principal and aggregators    *)
(* (generate_data.py) and the loader (load_to_db.py) that fill the inputs. *)
(*                                                                         *)
(* Each invocation of a driver is a process r \in Runs.  The store is      *)
(* PostgreSQL at its default isolation level (READ COMMITTED): a           *)
(* transaction's writes are private until it commits, a statement sees the *)
(* rows committed when it starts, and a DELETE that meets a row another    *)
(* open transaction has deleted waits for that transaction to end.         *)
(*                                                                         *)
(* The SQL scripts (sql/recon_trades.sql, sql/recon_positions.sql,         *)
(* sql/recon_cash.sql, sql/pnl_calculation.sql) are not part of the source *)
(* tree at hand; their statements are modelled from the specification      *)
(* (delete the rows of the date, then insert the freshly computed rows:    *)
(* the outer join on trade_id with its severity bands, the position and    *)
(* cash differences, the PnL groups).                                      *)
(***************************************************************************)
EXTENDS Integers, FiniteSets, Sequences, TLC

VARIABLES
    inp,            \* the six loaded input tables: table -> date -> rows
    db,             \* the four output tables, committed rows: table -> rows
    db0,            \* the output tables as they were before any invocation
    inv,            \* the invocations: r -> the driver's local state
    pipeline_runs   \* the audit table (append-only)

vars == <<inp, db, db0, inv, pipeline_runs>>

-----------------------------------------------------------------------------
(* Bounds *)

MaxRuns == 2

Runs == 1..MaxRuns

Dates == {"D1", "D2"}

-----------------------------------------------------------------------------
(* Pipelines and tables *)

Engines == {"trade_reconciliation", "position_cash_reconciliation", "pnl_calculation"}

OutputTables == {"recon_trades", "recon_positions", "recon_cash", "daily_pnl"}

InputTables == {"internal_trades", "broker_trades", "internal_positions",
                "broker_positions", "internal_cash", "broker_cash"}

\* The SQL files a driver's main() runs, in order, named by the table each replaces.
Units(e) ==
    CASE e = "trade_reconciliation" -> <<"recon_trades">>
      [] e = "position_cash_reconciliation" -> <<"recon_positions", "recon_cash">>
      [] e = "pnl_calculation" -> <<"daily_pnl">>

TablesOf(e) == {Units(e)[i] : i \in 1..Len(Units(e))}

-----------------------------------------------------------------------------
(* Input data: two loads of the six input tables *)

\* The symbols, accounts and strategies of the sample data.
SYMBOLS == {"AAPL", "MSFT", "TSLA"}

ACCOUNTS == {"ACCT_MAIN", "ACCT_HEDGE", "ACME", "HEDGE"}

STRATEGIES == {"MarketMaking", "StatisticalArb", "DeltaNeutral"}

CURRENCIES == {"USD"}

\* Money (price, fees, principal) is in thousandths of a currency unit: 10.05 is 10050.

PrincipalFeesAdded(side, qty, px, fees) ==
    IF side = "BUY" THEN -1 * ((qty * px) + fees) ELSE (qty * px) + fees

\* Net Amount Calculation: -1 * (quantity * price + fees) for a BUY, else
\* quantity * price - fees.
Principal(side, qty, px, fees) ==
    IF side = "BUY" THEN -1 * ((qty * px) + fees) ELSE (qty * px) - fees

\* A row of internal_trades or broker_trades; settle is the settlement lag in days.
TradeRecord(id, side, qty, px, fees, settle, sym, acct, strat) ==
    [trade_id |-> id, settlement_date |-> settle, symbol |-> sym, account |-> acct,
     strategy |-> strat, side |-> side, quantity |-> qty, price |-> px, fees |-> fees,
     currency |-> "USD", principal |-> Principal(side, qty, px, fees)]

Trade(id, px, qty, strat) ==
    TradeRecord(id, "BUY", qty, px, 1000, 1, "AAPL", "ACCT_MAIN", strat)

Pos(acct, sym, n) == [account |-> acct, symbol |-> sym, net_position |-> n]

Cash(acct, ccy, n) == [account |-> acct, currency |-> ccy, net_cash_balance |-> n]

SignedQtyAbs(x) == x.quantity

\* signed_qty: quantity for a BUY, else -quantity.
SignedQty(x) == IF x.side = "BUY" THEN x.quantity ELSE -x.quantity

\* groupby(...)[column].sum() of one group; "signed_qty" is the derived column.
RECURSIVE GroupSum(_, _)
GroupSum(rows, col) ==
    IF rows = {} THEN 0
    ELSE LET x == CHOOSE y \in rows : TRUE
         IN  (IF col = "signed_qty" THEN SignedQty(x) ELSE x[col])
             + GroupSum(rows \ {x}, col)

\* groupby(['account', 'symbol'])['signed_qty'].sum(): one row per group present.
aggregate_positions(df) ==
    {Pos(k[1], k[2], GroupSum({x \in df : <<x.account, x.symbol>> = k}, "signed_qty")) :
        k \in {<<x.account, x.symbol>> : x \in df}}

\* groupby(['account', 'currency'])['principal'].sum().
aggregate_cash(df) ==
    {Cash(k[1], k[2], GroupSum({x \in df : <<x.account, x.currency>> = k}, "principal")) :
        k \in {<<x.account, x.currency>> : x \in df}}

LoadA ==
    [t \in InputTables |-> [d \in Dates |->
        CASE t = "internal_trades" ->
                IF d = "D1" THEN {Trade("T1", 10000, 100, "MarketMaking"),
                                  Trade("T2", 20000, 50, "DeltaNeutral")}
                            ELSE {Trade("T3", 30000, 10, "MarketMaking")}
          [] t = "broker_trades" ->
                IF d = "D1" THEN {Trade("T1", 11000, 100, "MarketMaking"),
                                  Trade("B1", 5000, 5, "MarketMaking")}
                            ELSE {Trade("T3", 30000, 10, "MarketMaking")}
          [] t = "internal_positions" ->
                IF d = "D1" THEN {Pos("ACCT_MAIN", "AAPL", 500)}
                            ELSE {Pos("ACCT_MAIN", "AAPL", 10)}
          [] t = "broker_positions" ->
                IF d = "D1" THEN {Pos("ACCT_MAIN", "AAPL", 480)}
                            ELSE {Pos("ACCT_MAIN", "AAPL", 10)}
          [] t = "internal_cash" ->
                IF d = "D1" THEN {Cash("ACCT_MAIN", "USD", -2000)}
                            ELSE {Cash("ACCT_MAIN", "USD", -300)}
          [] t = "broker_cash" ->
                IF d = "D1" THEN {Cash("ACCT_MAIN", "USD", -2100)}
                            ELSE {Cash("ACCT_MAIN", "USD", -300)}]]

LoadB ==
    [t \in InputTables |-> [d \in Dates |->
        CASE t = "internal_trades" ->
                IF d = "D1" THEN {Trade("T1", 10000, 100, "MarketMaking")}
                            ELSE {Trade("T3", 30000, 10, "MarketMaking"),
                                  Trade("T4", 40000, 10, "MarketMaking")}
          [] t = "broker_trades" ->
                IF d = "D1" THEN {Trade("T1", 10000, 90, "MarketMaking")}
                            ELSE {Trade("T3", 30000, 10, "MarketMaking")}
          [] t = "internal_positions" ->
                IF d = "D1" THEN {Pos("ACCT_MAIN", "AAPL", 500)}
                            ELSE {Pos("ACCT_MAIN", "MSFT", 20)}
          [] t = "broker_positions" ->
                IF d = "D1" THEN {Pos("ACCT_MAIN", "AAPL", 500),
                                  Pos("ACCT_HEDGE", "MSFT", 7)}
                            ELSE {}
          [] t = "internal_cash" ->
                IF d = "D1" THEN {Cash("ACCT_MAIN", "USD", -1000)}
                            ELSE {Cash("ACCT_MAIN", "USD", -700)}
          [] t = "broker_cash" ->
                IF d = "D1" THEN {Cash("ACCT_MAIN", "USD", -900)}
                            ELSE {Cash("ACCT_MAIN", "USD", -700)}]]

Loads == {LoadA, LoadB}

\* Sample trades of one date.  T1 is BUY 100 @ 10.00, fee 1.00; T3 is a SELL whose fee
\* exceeds quantity * price.
InternalPool ==
    {TradeRecord("T1", "BUY", 100, 10000, 1000, 1, "AAPL", "ACME", "MarketMaking"),
     TradeRecord("T2", "BUY", 500, 500000, 0, 2, "MSFT", "ACME", "DeltaNeutral"),
     TradeRecord("T3", "SELL", 10, 100, 2000, 1, "AAPL", "ACME", "MarketMaking")}

\* The counterparty's views of them: unchanged, or with the price, the quantity, the
\* fees or the settlement date (or all of them) differing, and a trade of its own.
BrokerPool ==
    InternalPool \cup
    {TradeRecord("T1", "BUY", 100, 10050, 1000, 1, "AAPL", "ACME", "MarketMaking"),
     TradeRecord("T1", "BUY", 100, 10001, 1000, 1, "AAPL", "ACME", "MarketMaking"),
     TradeRecord("T1", "BUY", 100, 10000, 101000, 1, "AAPL", "ACME", "MarketMaking"),
     TradeRecord("T1", "BUY", 100, 10000, 1000, 2, "AAPL", "ACME", "MarketMaking"),
     TradeRecord("T1", "BUY", 90, 10050, 1500, 2, "AAPL", "ACME", "MarketMaking"),
     TradeRecord("T2", "BUY", 480, 500000, 0, 2, "MSFT", "ACME", "DeltaNeutral"),
     TradeRecord("T2", "BUY", 500, 502000, 0, 2, "MSFT", "ACME", "DeltaNeutral"),
     TradeRecord("T2", "BUY", 500, 501999, 0, 2, "MSFT", "ACME", "DeltaNeutral"),
     TradeRecord("BRK_ONLY_0", "SELL", 100, 200000, 0, 1, "TSLA", "HEDGE", "MarketMaking")}

\* trade_id is unique per side.
UniqueIds(S) == \A x, y \in S : x.trade_id = y.trade_id => x = y

LoadDate == "D1"

\* main() of generate_data.py and of load_to_db.py for one date: the two trade sets,
\* and the positions and cash aggregated from each.
GeneratedLoad(internal_df, broker_df) ==
    [t \in InputTables |-> [d \in Dates |->
        IF d # LoadDate THEN {}
        ELSE CASE t = "internal_trades" -> internal_df
               [] t = "broker_trades" -> broker_df
               [] t = "internal_positions" -> aggregate_positions(internal_df)
               [] t = "broker_positions" -> aggregate_positions(broker_df)
               [] t = "internal_cash" -> aggregate_cash(internal_df)
               [] t = "broker_cash" -> aggregate_cash(broker_df)]]

DataLoads ==
    {GeneratedLoad(I, B) :
        I \in SUBSET InternalPool, B \in {S \in SUBSET BrokerPool : UniqueIds(S)}}

\* Nothing loaded: every input table is empty for every date.
NoData == [t \in InputTables |-> [d \in Dates |-> {}]]

\* Loads with a malformed row on D1: a counterparty trade of quantity 0, an internal
\* trade of unknown side.
LoadZeroQuantity ==
    [LoadA EXCEPT !["broker_trades"]["D1"] =
        @ \cup {TradeRecord("T2", "BUY", 0, 20000, 1000, 1, "AAPL", "ACCT_MAIN",
                            "DeltaNeutral")}]

LoadUnknownSide ==
    [LoadB EXCEPT !["internal_trades"]["D1"] =
        @ \cup {TradeRecord("T5", "HOLD", 10, 20000, 1000, 1, "AAPL", "ACCT_MAIN",
                            "DeltaNeutral")}]

MalformedLoads == {LoadZeroQuantity, LoadUnknownSide}

-----------------------------------------------------------------------------
(* What the SQL scripts compute from the input tables `in` for date d.       *)
(* The scripts are not in the source tree: these follow the specification.   *)

Abs(x) == IF x < 0 THEN -x ELSE x

CashTolerance == 1

\* Default thresholds of the severity bands and the comparison tolerances, in
\* thousandths: 10,000 / 1,000 / 100 and 0.001.
HighThreshold == 10000000

MediumThreshold == 1000000

LowThreshold == 100000

PriceTolerance == 1

FeeTolerance == 1

\* The nominal impact of a settlement date break.
DateImpact == 0

BandExclusive(n) ==
    IF n > HighThreshold THEN "CRITICAL"
    ELSE IF n > MediumThreshold THEN "HIGH"
    ELSE IF n > LowThreshold THEN "MEDIUM"
    ELSE "LOW"

Band(n) ==
    IF n >= HighThreshold THEN "CRITICAL"
    ELSE IF n >= MediumThreshold THEN "HIGH"
    ELSE IF n >= LowThreshold THEN "MEDIUM"
    ELSE "LOW"

\* A missing or phantom trade is at least HIGH.
Severity(type, n) ==
    IF type \in {"MISSING_AT_COUNTERPARTY", "PHANTOM_AT_COUNTERPARTY"}
       /\ Band(n) \in {"MEDIUM", "LOW"}
    THEN "HIGH"
    ELSE Band(n)

\* A recon_trades row for trade x; iv and bv are {} for null, else {the value}.
Break(x, type, iv, bv, impact) ==
    [trade_id |-> x.trade_id, symbol |-> x.symbol, account |-> x.account,
     break_type |-> type, severity |-> Severity(type, impact),
     internal_value |-> iv, broker_value |-> bv, notional_impact |-> impact]

\* Full outer join on trade_id: the trades only one side has.
OneSidedBreaks(in, d) ==
    LET I == in["internal_trades"][d]
        B == in["broker_trades"][d]
    IN  {Break(x, "MISSING_AT_COUNTERPARTY", {x.principal}, {}, Abs(x.principal)) :
            x \in {y \in I : \A b \in B : b.trade_id # y.trade_id}}
        \cup
        {Break(x, "PHANTOM_AT_COUNTERPARTY", {}, {x.principal}, Abs(x.principal)) :
            x \in {y \in B : \A i \in I : i.trade_id # y.trade_id}}

FieldBreaksWrongColumn(in, d) ==
    LET P == {<<i, b>> \in in["internal_trades"][d] \X in["broker_trades"][d] :
                 i.trade_id = b.trade_id}
    IN  {Break(p[1], "QUANTITY_MISMATCH", {p[1].quantity}, {p[2].price},
               Abs(p[1].principal - p[2].principal)) :
            p \in {q \in P : q[1].quantity # q[2].price}}

\* ... and, for the trades both sides have, one break per differing field.
FieldBreaks(in, d) ==
    LET P == {<<i, b>> \in in["internal_trades"][d] \X in["broker_trades"][d] :
                 i.trade_id = b.trade_id}
        PrincipalDiff(q) == Abs(q[1].principal - q[2].principal)
    IN  {Break(p[1], "PRICE_MISMATCH", {p[1].price}, {p[2].price}, PrincipalDiff(p)) :
            p \in {q \in P : Abs(q[1].price - q[2].price) > PriceTolerance}}
        \cup
        {Break(p[1], "QUANTITY_MISMATCH", {p[1].quantity}, {p[2].quantity},
               PrincipalDiff(p)) :
            p \in {q \in P : q[1].quantity # q[2].quantity}}
        \cup
        {Break(p[1], "FEE_MISMATCH", {p[1].fees}, {p[2].fees}, Abs(p[1].fees - p[2].fees)) :
            p \in {q \in P : Abs(q[1].fees - q[2].fees) > FeeTolerance}}
        \cup
        {Break(p[1], "SETTLEMENT_DATE_MISMATCH", {p[1].settlement_date},
               {p[2].settlement_date}, DateImpact) :
            p \in {q \in P : q[1].settlement_date # q[2].settlement_date}}

\* net_position / net_cash_balance of key <<account, symbol | currency>> on one side,
\* 0 when the side lacks the key.
ValueOf(rows, col, key) ==
    IF \E x \in rows : <<x.account, x[col]>> = key
    THEN LET x == CHOOSE y \in rows : <<y.account, y[col]>> = key
         IN  IF col = "symbol" THEN x.net_position ELSE x.net_cash_balance
    ELSE 0

\* Share counts are exact integers.
PositionTolerance == 0

PositionBreaks(in, d) ==
    LET I == in["internal_positions"][d]
        B == in["broker_positions"][d]
        K == {<<x.account, x.symbol>> : x \in I \cup B}
        Diff(k) == ValueOf(I, "symbol", k) - ValueOf(B, "symbol", k)
    IN  {[account |-> k[1], symbol |-> k[2],
          internal_value |-> ValueOf(I, "symbol", k),
          broker_value |-> ValueOf(B, "symbol", k), difference |-> Diff(k)] :
            k \in {j \in K : Abs(Diff(j)) > PositionTolerance}}

CashBreaks(in, d) ==
    LET I == in["internal_cash"][d]
        B == in["broker_cash"][d]
        K == {<<x.account, x.currency>> : x \in I \cup B}
        Diff(k) == ValueOf(I, "currency", k) - ValueOf(B, "currency", k)
    IN  {[account |-> k[1], currency |-> k[2], difference |-> Diff(k)] :
            k \in {j \in K : Abs(Diff(j)) > CashTolerance}}

\* The sum of column col over rows.
RECURSIVE Sum(_, _)
Sum(rows, col) ==
    IF rows = {} THEN 0
    ELSE LET x == CHOOSE y \in rows : TRUE
         IN  x[col] + Sum(rows \ {x}, col)

\* GROUP BY strategy, symbol, account over the internal trades of the date.
PnlRecords(in, d) ==
    LET I == in["internal_trades"][d]
        G(k) == {x \in I : <<x.strategy, x.symbol, x.account>> = k}
    IN  {[strategy |-> k[1], symbol |-> k[2], account |-> k[3],
          trade_count |-> Cardinality(G(k)),
          realized_pnl |-> Sum(G(k), "principal"),
          fees_total |-> Sum(G(k), "fees"),
          net_pnl |-> Sum(G(k), "principal") - Sum(G(k), "fees")] :
            k \in {<<x.strategy, x.symbol, x.account>> : x \in I}}

\* A trade row that fails validation: non-positive quantity, a side other than BUY or
\* SELL, an invalid price.
Malformed(x) == x.quantity <= 0 \/ x.side \notin {"BUY", "SELL"} \/ x.price < 0

\* The trade tables the script for table t reads.
TradeInputs(t) ==
    CASE t = "recon_trades" -> {"internal_trades", "broker_trades"}
      [] t = "daily_pnl" -> {"internal_trades"}
      [] OTHER -> {}

\* The engine fails the run on a malformed row rather than dropping it.
InputValid(in, t, d) == \A i \in TradeInputs(t) : \A x \in in[i][d] : ~Malformed(x)

\* The rows the n-th INSERT statement of the script for table t selects.
Selected(in, t, d, n) ==
    CASE t = "recon_trades" -> IF n = 1 THEN OneSidedBreaks(in, d) ELSE FieldBreaks(in, d)
      [] t = "recon_positions" -> PositionBreaks(in, d)
      [] t = "recon_cash" -> CashBreaks(in, d)
      [] t = "daily_pnl" -> PnlRecords(in, d)

\* A script as main() reads it: the chunks between the semicolons.  A chunk is its
\* lines ("comment" for a line starting with --, "sql", "blank") and what its SQL does.
Chunk(lines, op, n) == [lines |-> lines, op |-> op, n |-> n]

Script(t) ==
    <<Chunk(<<"comment", "comment", "blank">>, "none", 0),
      Chunk(<<"blank", "comment", "sql">>, "delete", 0),
      Chunk(<<"blank", "comment", "sql", "sql">>, "insert", 1)>>
    \o (IF t = "recon_trades"
        THEN <<Chunk(<<"blank", "comment", "sql", "sql">>, "insert", 2)>>
        ELSE <<>>)
    \o <<Chunk(<<"blank", "blank">>, "none", 0)>>

\* Everything the script for table t inserts for date d.
Result(in, t, d) ==
    UNION {Selected(in, t, d, Script(t)[i].n) :
              i \in {j \in 1..Len(Script(t)) : Script(t)[j].op = "insert"}}

-----------------------------------------------------------------------------
(* Rows of the output tables *)

\* resolved is the column's default: no script names it.
NewRow(r, d, k) == [run |-> r, date |-> d, key |-> k, resolved |-> FALSE]

RowsFor(rows, d) == {x \in rows : x.date = d}

Keys(rows) == {x.key : x \in rows}

\* The rows a complete run r of the script for t leaves for date d.
RunRows(in, r, t, d) == {NewRow(r, d, k) : k \in Result(in, t, d)}

-----------------------------------------------------------------------------
(* The drivers: one invocation of main() is a process r *)

EmptyDb == [t \in OutputTables |-> {}]

\* The output tables after a complete earlier pipeline pass (run 0) over load l.
PriorDb(l) == [t \in OutputTables |-> UNION {RunRows(l, 0, t, d) : d \in Dates}]

\* A CSV file of the loader: whether it exists, and its rows.
File(rows) == [exists |-> TRUE, rows |-> rows]

NoFile == [exists |-> FALSE, rows |-> {}]

NoFiles == [t \in InputTables |-> NoFile]

Idle ==
    [pc |-> "idle", engine |-> "none", date |-> "none", u |-> 0, idx |-> 0,
     del |-> {}, ins |-> {}, scan |-> {}, pre |-> EmptyDb, committed |-> {},
     breaks |-> 0, fail |-> "none", exit |-> -1, files |-> NoFiles]

Init ==
    /\ inp \in Loads
    /\ db0 \in {EmptyDb} \cup {PriorDb(l) : l \in Loads}
    /\ db = db0
    /\ inv = [r \in Runs |-> Idle]
    /\ pipeline_runs = {}

\* The process has ended with exit status x: what remains of it is the pipeline, the
\* date, the status and the tables it committed.
Exited(r, x) ==
    [Idle EXCEPT !.pc = "exited", !.engine = inv[r].engine, !.date = inv[r].date,
                 !.committed = inv[r].committed, !.exit = x, !.files = inv[r].files]

\* The table the unit in progress replaces.
Target(r) == Units(inv[r].engine)[inv[r].u]

InFlight(r) == inv[r].pc \notin {"idle", "exited"}

InTransaction(r) == inv[r].pc \in {"tx", "waiting"}

\* main(): target_date from --date, start_time, create_engine (no connection yet).
Invoke(r, e, d) ==
    /\ inv[r].pc = "idle"
    /\ \A s \in Runs : s < r => inv[s].pc # "idle"
    /\ inv' = [inv EXCEPT ![r] = [Idle EXCEPT !.pc = "open", !.engine = e, !.date = d,
                                              !.u = 1, !.pre = db]]
    /\ UNCHANGED <<inp, db, db0, pipeline_runs>>

\* The operator starts a pipeline for a date once its previous invocation has ended.
NoneInFlight(e, d) ==
    \A s \in Runs : InFlight(s) => ~(inv[s].engine = e /\ inv[s].date = d)

ScheduledInvoke(r, e, d) == NoneInFlight(e, d) /\ Invoke(r, e, d)

\* open(SQL_FILE_PATH) raises FileNotFoundError: sys.exit(1) inside run_recon.
\* SystemExit is not an Exception, so main()'s handler does not see it.
SqlFileMissing(r) ==
    /\ inv[r].pc = "open"
    /\ inv' = [inv EXCEPT ![r] = Exited(r, 1)]
    /\ UNCHANGED <<inp, db, db0, pipeline_runs>>

\* engine.begin() cannot connect: the exception reaches main()'s handler.
ConnectFails(r) ==
    /\ inv[r].pc = "open"
    /\ inv' = [inv EXCEPT ![r].pc = "except", ![r].fail = "connect"]
    /\ UNCHANGED <<inp, db, db0, pipeline_runs>>

\* with engine.begin() as conn: one transaction for all the statements.
BeginTransaction(r) ==
    /\ inv[r].pc = "open"
    /\ inv' = [inv EXCEPT ![r].pc = "tx", ![r].idx = 1, ![r].del = {}, ![r].ins = {}]
    /\ UNCHANGED <<inp, db, db0, pipeline_runs>>

IsExecutableAny(c) ==
    LET nb == {i \in 1..Len(c.lines) : c.lines[i] # "blank"}
    IN  nb # {} /\ ~(\E i \in nb : c.lines[i] = "comment")

\* The loop's two `continue`s: an empty chunk, and a chunk whose lines are all comments.
IsExecutable(c) ==
    LET nb == {i \in 1..Len(c.lines) : c.lines[i] # "blank"}
    IN  nb # {} /\ ~(\A i \in nb : c.lines[i] = "comment")

\* The next chunk from position i on that the loop executes (Len + 1: none is left).
NextStmt(t, i) ==
    LET S == {j \in i..Len(Script(t)) : IsExecutable(Script(t)[j])}
    IN  IF S = {} THEN Len(Script(t)) + 1 ELSE CHOOSE j \in S : \A k \in S : j <= k

BoundDateOther(r) == CHOOSE d \in Dates : d # inv[r].date

\* The bind parameter of every statement: {"recon_date": date_str}.
BoundDate(r) == inv[r].date

\* Rows of `rows` that another open transaction has deleted (it holds their locks).
LockedByOther(r, t, rows) ==
    \E s \in Runs \ {r} : InTransaction(s) /\ Target(s) = t /\ inv[s].del \cap rows # {}

\* The committed rows of table t with a transaction's deletes and inserts applied.
Apply(t, del, ins) == [db EXCEPT ![t] = (@ \ del) \cup ins]

AfterStatementAutocommit(r, del, ins) ==
    [db |-> Apply(Target(r), del, ins), del |-> {}, ins |-> {}]

\* A statement run on the connection of `with engine.begin() as conn`: its writes
\* stay in the open transaction, the committed rows are as they were.
AfterStatement(r, del, ins) == [db |-> db, del |-> del, ins |-> ins]

\* conn.execute(text(stmt), {"recon_date": date_str}) succeeds.
ExecuteStatement(r) ==
    /\ inv[r].pc = "tx"
    /\ LET t == Target(r)
           j == NextStmt(t, inv[r].idx)
           d == BoundDate(r)
           a == IF Script(t)[j].op = "delete"
                THEN AfterStatement(r, inv[r].del \cup RowsFor(db[t], d),
                                    inv[r].ins \ RowsFor(inv[r].ins, d))
                ELSE AfterStatement(r, inv[r].del,
                                    inv[r].ins \cup {NewRow(r, d, k) :
                                        k \in Selected(inp, t, d, Script(t)[j].n)})
       IN  /\ j <= Len(Script(t))
           /\ Script(t)[j].op = "delete" => ~LockedByOther(r, t, RowsFor(db[t], d))
           /\ Script(t)[j].op = "insert" => InputValid(inp, t, d)
           /\ db' = a.db
           /\ inv' = [inv EXCEPT ![r].idx = j + 1, ![r].del = a.del, ![r].ins = a.ins]
    /\ UNCHANGED <<inp, db0, pipeline_runs>>

AppliedFromSnapshot(r) ==
    [inv[r].pre EXCEPT ![Target(r)] = (db[Target(r)] \ inv[r].del) \cup inv[r].ins]

\* The committed rows once transaction r ends with its writes kept.
Applied(r) == Apply(Target(r), inv[r].del, inv[r].ins)

AfterStatementErrorKeep(r) == Applied(r)

\* The statement raises, the handler re-raises, and engine.begin() rolls back.
AfterStatementError(r) == db

\* Why the next statement of r raises, when it does: the rows it reads fail
\* validation, or the store fails.
FailureOf(r) ==
    LET t == Target(r)
        j == NextStmt(t, inv[r].idx)
    IN  IF Script(t)[j].op = "insert" /\ ~InputValid(inp, t, BoundDate(r))
        THEN "validation" ELSE "statement"

StatementFails(r) ==
    /\ inv[r].pc = "tx"
    /\ NextStmt(Target(r), inv[r].idx) <= Len(Script(Target(r)))
    /\ db' = AfterStatementError(r)
    /\ inv' = [inv EXCEPT ![r].pc = "except", ![r].fail = FailureOf(r),
                          ![r].del = {}, ![r].ins = {}]
    /\ UNCHANGED <<inp, db0, pipeline_runs>>

\* The loop ends and the with block commits.
Commit(r) ==
    /\ inv[r].pc = "tx"
    /\ NextStmt(Target(r), inv[r].idx) > Len(Script(Target(r)))
    /\ db' = Applied(r)
    /\ inv' = [inv EXCEPT ![r].pc = "committed", ![r].del = {}, ![r].ins = {},
                          ![r].committed = @ \cup {Target(r)}]
    /\ UNCHANGED <<inp, db0, pipeline_runs>>

\* The summary query on a new connection, print_summary (the sum of its counts), and
\* the driver's other reads (export_breaks_csv, print_top_performers); then the next
\* SQL file of the pipeline, or the audit row.
PostCommit(r) ==
    /\ inv[r].pc = "committed"
    /\ inv' = [inv EXCEPT
                 ![r].breaks = @ + Cardinality(RowsFor(db[Target(r)], inv[r].date)),
                 ![r].pc = IF inv[r].u < Len(Units(inv[r].engine)) THEN "open" ELSE "log",
                 ![r].u = IF inv[r].u < Len(Units(inv[r].engine)) THEN @ + 1 ELSE @]
    /\ UNCHANGED <<inp, db, db0, pipeline_runs>>

PostCommitFails(r) ==
    /\ inv[r].pc = "committed"
    /\ inv' = [inv EXCEPT ![r].pc = "except", ![r].fail = "postcommit"]
    /\ UNCHANGED <<inp, db, db0, pipeline_runs>>

\* The loader's main() logs rows=50000 on success.
RowsLogged == 50000

AuditRow(r, status) ==
    [run |-> r, pipeline_name |-> inv[r].engine, run_date |-> inv[r].date,
     status |-> status,
     breaks_found |-> IF status = "SUCCESS"
                         /\ inv[r].engine \in {"trade_reconciliation",
                                               "position_cash_reconciliation"}
                      THEN inv[r].breaks ELSE 0,
     rows_processed |-> IF status = "SUCCESS" /\ inv[r].engine = "daily_etl_load"
                        THEN RowsLogged ELSE 0]

\* log_pipeline_run(engine, 'SUCCESS', ...) and the normal return of main().
LogSuccess(r) ==
    /\ inv[r].pc = "log"
    /\ pipeline_runs' = pipeline_runs \cup {AuditRow(r, "SUCCESS")}
    /\ inv' = [inv EXCEPT ![r] = Exited(r, 0)]
    /\ UNCHANGED <<inp, db, db0>>

LogSuccessFails(r) ==
    /\ inv[r].pc = "log"
    /\ inv' = [inv EXCEPT ![r].pc = "except", ![r].fail = "log"]
    /\ UNCHANGED <<inp, db, db0, pipeline_runs>>

\* except Exception: log_pipeline_run(engine, 'FAILED', ...); sys.exit(1).
LogFailed(r) ==
    /\ inv[r].pc = "except"
    /\ pipeline_runs' = pipeline_runs \cup {AuditRow(r, "FAILED")}
    /\ inv' = [inv EXCEPT ![r] = Exited(r, 1)]
    /\ UNCHANGED <<inp, db, db0>>

\* ... and when that insert raises too: except: pass; sys.exit(1).
LogFailedFails(r) ==
    /\ inv[r].pc = "except"
    /\ inv' = [inv EXCEPT ![r] = Exited(r, 1)]
    /\ UNCHANGED <<inp, db, db0, pipeline_runs>>

Step(r) ==
    \/ SqlFileMissing(r)
    \/ ConnectFails(r)
    \/ BeginTransaction(r)
    \/ ExecuteStatement(r)
    \/ StatementFails(r)
    \/ Commit(r)
    \/ PostCommit(r)
    \/ PostCommitFails(r)
    \/ LogSuccess(r)
    \/ LogSuccessFails(r)
    \/ LogFailed(r)
    \/ LogFailedFails(r)

Next ==
    \/ \E r \in Runs, e \in Engines, d \in Dates : ScheduledInvoke(r, e, d)
    \/ \E r \in Runs : Step(r)

Spec == Init /\ [][Next]_vars

-----------------------------------------------------------------------------
(* Two invocations of one pipeline for one date at the same time.  The drivers *)
(* take no lock, so nothing but the operator keeps this from happening.        *)

\* The DELETE meets rows an open transaction has deleted and waits for it to end.
\* Its snapshot is the one it started with.
BlockOnDelete(r) ==
    /\ inv[r].pc = "tx"
    /\ LET t == Target(r)
           j == NextStmt(t, inv[r].idx)
       IN  /\ j <= Len(Script(t))
           /\ Script(t)[j].op = "delete"
           /\ LockedByOther(r, t, RowsFor(db[t], BoundDate(r)))
           /\ inv' = [inv EXCEPT ![r].pc = "waiting", ![r].idx = j,
                                 ![r].scan = RowsFor(db[t], BoundDate(r))]
    /\ UNCHANGED <<inp, db, db0, pipeline_runs>>

\* The other transaction has ended: the DELETE removes the rows of its snapshot that
\* are still there, and never sees the rows the other transaction inserted.
ResumeDelete(r) ==
    /\ inv[r].pc = "waiting"
    /\ ~LockedByOther(r, Target(r), inv[r].scan)
    /\ inv' = [inv EXCEPT ![r].pc = "tx", ![r].idx = @ + 1, ![r].scan = {},
                          ![r].del = @ \cup (inv[r].scan \cap db[Target(r)])]
    /\ UNCHANGED <<inp, db, db0, pipeline_runs>>

NextRace ==
    \/ \E r \in Runs, e \in Engines, d \in Dates : Invoke(r, e, d)
    \/ \E r \in Runs : Step(r)
    \/ \E r \in Runs : BlockOnDelete(r)
    \/ \E r \in Runs : ResumeDelete(r)

SpecRace == Init /\ [][NextRace]_vars

-----------------------------------------------------------------------------
(* Analyst triage: the external workflow that marks a trade break resolved. *)

AnalystResolve(x) ==
    /\ x \in db["recon_trades"]
    /\ ~x.resolved
    /\ \A s \in Runs : InTransaction(s) /\ Target(s) = "recon_trades" => x \notin inv[s].del
    /\ db' = [db EXCEPT !["recon_trades"] = (@ \ {x}) \cup {[x EXCEPT !.resolved = TRUE]}]
    /\ UNCHANGED <<inp, db0, inv, pipeline_runs>>

NextTriage ==
    \/ \E r \in Runs, d \in Dates : ScheduledInvoke(r, "trade_reconciliation", d)
    \/ \E r \in Runs : Step(r)
    \/ \E x \in db["recon_trades"] : AnalystResolve(x)

SpecTriage == Init /\ [][NextTriage]_vars

-----------------------------------------------------------------------------
(* One pass of the pipeline over generated data: the files of a date are loaded *)
(* into the empty input tables, and each engine is invoked once at a time.      *)

InitData ==
    /\ inp = NoData
    /\ db0 = EmptyDb
    /\ db = db0
    /\ inv = [r \in Runs |-> Idle]
    /\ pipeline_runs = {}

\* load_to_db.py main(): the six files of the date replace the rows of the date.  It
\* runs before the engines are started.
LoadData(l) ==
    /\ inp = NoData
    /\ \A r \in Runs : inv[r].pc = "idle"
    /\ inp' = l
    /\ UNCHANGED <<db, db0, inv, pipeline_runs>>

NextData ==
    \/ \E l \in DataLoads : LoadData(l)
    \/ \E e \in Engines, d \in Dates : ScheduledInvoke(1, e, d)
    \/ \E r \in Runs : Step(r)

SpecData == InitData /\ [][NextData]_vars

-----------------------------------------------------------------------------
(* The generator, generate_data.py: its random draws are choices.  Of the       *)
(* continuous draws (price, fees and their deltas) a few values stand for all.  *)

\* Trades generated per run (NUM_TRADES in the source is 50000).
NumTrades == 1

\* quantity is np.random.randint(10, 5000, n): from QtyLow up; the model stops at MaxQty.
QtyLow == 10

MaxQty == 11

\* The quantity mismatch adds np.random.randint(-10, 10): from -10 to 9.
QtyDeltaLow == -10

QtyDeltaHigh == 9

\* f"TRD_{i:07d}"
TradeIdOf(i) ==
    CASE i = 1 -> "TRD_0000001"
      [] i = 2 -> "TRD_0000002"
      [] OTHER -> "TRD_0000003"

\* f"BRK_ONLY_{i}"
PhantomIdOf(i) ==
    CASE i = 0 -> "BRK_ONLY_0"
      [] i = 1 -> "BRK_ONLY_1"
      [] OTHER -> "BRK_ONLY_2"

\* The frames generate_internal_trades(n) can return: trade i has a side and a
\* quantity drawn at random (price 50.00, fees 0.50, settlement the next day).
generate_internal_trades(n) ==
    {{TradeRecord(TradeIdOf(i), c[i].side, c[i].quantity, 50000, 500, 1,
                  "AAPL", "ACCT_MAIN", "MarketMaking") : i \in 1..n} :
        c \in [1..n -> [side : {"BUY", "SELL"}, quantity : QtyLow..MaxQty]]}

\* What steps 1 to 4 can add to a trade's price, quantity, fees and settlement date;
\* 0 is the trade the mask leaves out.
Corruptions ==
    [price : {0, 50}, quantity : QtyDeltaLow..QtyDeltaHigh, fees : {0, 1000},
     settlement_date : {0, 1}]

\* Steps 1 to 4 and the recalculation of principal, on one trade.
Corrupted(x, c) ==
    TradeRecord(x.trade_id, x.side, x.quantity + c.quantity, x.price + c.price,
                x.fees + c.fees, x.settlement_date + c.settlement_date,
                x.symbol, x.account, x.strategy)

\* Step 6: the phantom trades, generated trades under ids of the counterparty.
Phantoms(n) ==
    {{[x EXCEPT !.trade_id = PhantomIdOf(CHOOSE i \in 0..(n - 1) : TradeIdOf(i + 1) = @)]
         : x \in df} : df \in generate_internal_trades(n)}

\* The frames corrupt_broker_data(internal_df) can return.
corrupt_broker_data(internal_df) ==
    LET n == Cardinality(internal_df)
    IN  {{Corrupted(x, k[x]) : x \in internal_df \ dropped} \cup phantom_df :
            k \in [internal_df -> Corruptions],
            dropped \in {S \in SUBSET internal_df : Cardinality(S) = n \div 100},
            phantom_df \in Phantoms((n * 5) \div 1000)}

\* main() of generate_data.py, its six files loaded for the date.
Generate(internal_df, broker_df) ==
    /\ inp = NoData
    /\ inp' = GeneratedLoad(internal_df, broker_df)
    /\ UNCHANGED <<db, db0, inv, pipeline_runs>>

NextGen ==
    \E internal_df \in generate_internal_trades(NumTrades) :
        \E broker_df \in corrupt_broker_data(internal_df) :
            Generate(internal_df, broker_df)

SpecGen == InitData /\ [][NextGen]_vars

-----------------------------------------------------------------------------
(* The loader, load_to_db.py: one invocation of main() is a process r.  The files *)
(* of the date that it finds under data/raw are part of its state.               *)

\* The order in which main() loads the tables.
LoadOrder ==
    <<"internal_trades", "internal_positions", "internal_cash",
      "broker_trades", "broker_positions", "broker_cash">>

LoadTable(r) == LoadOrder[inv[r].u]

\* The files of date d as generated from load l, those of `missing` not being there.
FilesOf(l, d, missing) ==
    [t \in InputTables |-> IF t \in missing THEN NoFile ELSE File(l[t][d])]

FileSets(d) ==
    {FilesOf(l, d, missing) : l \in Loads, missing \in {{}, {"broker_trades"}}}

\* main(): target_date, start_time, create_engine.
InvokeLoad(r, d, f) ==
    /\ inv[r].pc = "idle"
    /\ \A s \in Runs : s < r => inv[s].pc # "idle"
    /\ NoneInFlight("daily_etl_load", d)
    /\ inv' = [inv EXCEPT ![r] = [Idle EXCEPT !.pc = "load", !.engine = "daily_etl_load",
                                              !.date = d, !.u = 1, !.files = f]]
    /\ UNCHANGED <<inp, db, db0, pipeline_runs>>

\* After fast_load_csv returns: the next table, or the audit row.
AfterTable(r) ==
    [inv EXCEPT ![r].pc = IF inv[r].u < Len(LoadOrder) THEN "load" ELSE "log",
                ![r].u = IF inv[r].u < Len(LoadOrder) THEN @ + 1 ELSE @,
                ![r].del = {}, ![r].ins = {}]

\* if not os.path.exists(file_path): the table is skipped.
FileNotFound(r) ==
    /\ inv[r].pc = "load"
    /\ ~inv[r].files[LoadTable(r)].exists
    /\ inv' = AfterTable(r)
    /\ UNCHANGED <<inp, db, db0, pipeline_runs>>

ExistingRowsKept(r) == {}

\* The rows DELETE FROM table WHERE date_col = date_str removes.
ExistingRows(r) == inp[LoadTable(r)][inv[r].date]

\* STEP 1: the DELETE, on a raw connection (a transaction is open from here on).
DeleteExisting(r) ==
    /\ inv[r].pc = "load"
    /\ inv[r].files[LoadTable(r)].exists
    /\ inv' = [inv EXCEPT ![r].pc = "deleted", ![r].del = ExistingRows(r)]
    /\ UNCHANGED <<inp, db, db0, pipeline_runs>>

\* STEP 2: read_csv and COPY ... FROM STDIN of every row of the file.
CopyFile(r) ==
    /\ inv[r].pc = "deleted"
    /\ inv' = [inv EXCEPT ![r].pc = "copied", ![r].ins = inv[r].files[LoadTable(r)].rows]
    /\ UNCHANGED <<inp, db, db0, pipeline_runs>>

\* conn.commit(): the table's rows of the date become the kept rows and the copied.
CommitLoad(r) ==
    /\ inv[r].pc = "copied"
    /\ inp' = [inp EXCEPT ![LoadTable(r)][inv[r].date] = (@ \ inv[r].del) \cup inv[r].ins]
    /\ inv' = AfterTable(r)
    /\ UNCHANGED <<db, db0, pipeline_runs>>

\* raw_connection, the DELETE, read_csv or the COPY raises: nothing of this table is
\* committed, and the exception reaches main()'s handler.
LoadFails(r) ==
    /\ inv[r].pc \in {"load", "deleted", "copied"}
    /\ inv[r].files[LoadTable(r)].exists
    /\ inv' = [inv EXCEPT ![r].pc = "except", ![r].fail = "load",
                          ![r].del = {}, ![r].ins = {}]
    /\ UNCHANGED <<inp, db, db0, pipeline_runs>>

NextLoad ==
    \/ \E r \in Runs, d \in Dates : \E f \in FileSets(d) : InvokeLoad(r, d, f)
    \/ \E r \in Runs : FileNotFound(r)
    \/ \E r \in Runs : DeleteExisting(r)
    \/ \E r \in Runs : CopyFile(r)
    \/ \E r \in Runs : CommitLoad(r)
    \/ \E r \in Runs : LoadFails(r)
    \/ \E r \in Runs : LogSuccess(r)
    \/ \E r \in Runs : LogSuccessFails(r)
    \/ \E r \in Runs : LogFailed(r)
    \/ \E r \in Runs : LogFailedFails(r)

SpecLoad == InitData /\ [][NextLoad]_vars

-----------------------------------------------------------------------------
(* The pipelines over a load that holds a malformed row. *)

InitMalformed ==
    /\ inp \in MalformedLoads
    /\ db0 \in {EmptyDb, PriorDb(LoadA)}
    /\ db = db0
    /\ inv = [r \in Runs |-> Idle]
    /\ pipeline_runs = {}

SpecMalformed == InitMalformed /\ [][Next]_vars

-----------------------------------------------------------------------------
(* The dashboard: each query runs alone on its own connection and returns the *)
(* committed rows of one output table for the selected date.                  *)

QueryResult(t, d) == RowsFor(db[t], d)

-----------------------------------------------------------------------------
(* Properties *)

\* The invocations that have committed a replacement of table t for date d.
Committers(t, d) == {r \in Runs : inv[r].date = d /\ t \in inv[r].committed}

\* rows is the whole result of one run, or what the table held for d at the start.
Complete(t, d, rows) ==
    \/ rows = RowsFor(db0[t], d)
    \/ \E r \in Runs : rows = RunRows(inp, r, t, d)

\* C1: when a statement of a unit's delete+insert sequence fails, the unit is rolled
\* back and the target table's rows for the date are exactly the rows it held when
\* the invocation started.
C1_FailedUnitKeepsPriorRows ==
    \A r \in Runs :
        inv[r].pc = "except" /\ inv[r].fail = "statement" =>
            RowsFor(db[Target(r)], inv[r].date) = RowsFor(inv[r].pre[Target(r)], inv[r].date)

\* C1 witness: a statement failed after the DELETE had removed rows that existed.
C1_Witness ==
    \E r \in Runs :
        /\ inv[r].pc = "except" /\ inv[r].fail = "statement"
        /\ inv[r].idx >= 3
        /\ RowsFor(inv[r].pre[Target(r)], inv[r].date) # {}

\* C2: once a pipeline has run to commit two or more times on the same input for a
\* date, the table holds for that date what one run leaves: every computed row once,
\* and no other row.
C2_RerunEqualsSingleRun ==
    \A t \in OutputTables, d \in Dates :
        Cardinality(Committers(t, d)) >= 2 =>
            /\ Keys(RowsFor(db[t], d)) = Result(inp, t, d)
            /\ Cardinality(RowsFor(db[t], d)) = Cardinality(Result(inp, t, d))

\* C2 witness: a second committed run over a non-empty result, where the table held
\* rows for the date before the first.
C2_Witness ==
    \E t \in OutputTables, d \in Dates :
        /\ Cardinality(Committers(t, d)) >= 2
        /\ Result(inp, t, d) # {}
        /\ RowsFor(db0[t], d) # {}

\* C3: whatever a recompute is doing, a query of an output table for a date returns
\* the whole prior result set or the whole result set of one run.
C3_ReaderSeesCompleteSet ==
    \A t \in OutputTables, d \in Dates : Complete(t, d, QueryResult(t, d))

\* C3 witness: a transaction has deleted the old rows and inserted none of the new
\* ones, and the query still returns the old rows.
C3_Witness ==
    \E r \in Runs :
        /\ inv[r].pc = "tx"
        /\ inv[r].del # {} /\ inv[r].ins = {}
        /\ Result(inp, Target(r), inv[r].date) # {}
        /\ QueryResult(Target(r), inv[r].date) = inv[r].del

\* C4 (as claimed): invocations of one pipeline for one date never overlap, and once
\* none is running the table holds exactly one run's complete result set.
C4_SerializedPerEngineDate ==
    /\ \A r, s \in Runs :
          r # s /\ InFlight(r) /\ InFlight(s) =>
              ~(inv[r].engine = inv[s].engine /\ inv[r].date = inv[s].date)
    /\ \A t \in OutputTables, d \in Dates :
          /\ Committers(t, d) # {}
          /\ \A r \in Runs : InFlight(r) => ~(inv[r].date = d /\ t \in TablesOf(inv[r].engine))
          => \E r \in Committers(t, d) : RowsFor(db[t], d) = RunRows(inp, r, t, d)

\* C5: however the pipelines interleave, a table that a run has replaced for a date
\* holds exactly the rows that one of those runs computes on its own.
C5_TableAsIfEngineRanAlone ==
    \A t \in OutputTables, d \in Dates :
        Committers(t, d) # {} =>
            \E r \in Committers(t, d) : RowsFor(db[t], d) = RunRows(inp, r, t, d)

\* C5 witness: a pipeline has committed for a date while another pipeline is in the
\* middle of its transaction for the same date.
C5_Witness ==
    \E r, s \in Runs :
        /\ inv[r].engine # inv[s].engine /\ inv[r].date = inv[s].date
        /\ inv[r].pc = "tx" /\ inv[r].ins # {}
        /\ inv[s].committed # {} /\ inv[s].pc = "committed"
        /\ RowsFor(db[Target(s)], inv[s].date) # {}

\* C6 (as claimed): every invocation that has ended has exactly one audit row.
C6_OneAuditRowPerInvocation ==
    \A r \in Runs :
        inv[r].pc = "exited" => Cardinality({a \in pipeline_runs : a.run = r}) = 1

\* C7 (as claimed): SUCCESS is recorded only after every unit committed, and when
\* FAILED is recorded the pipeline's tables hold for the date what they held when the
\* invocation started.
C7_StatusMatchesWritePhase ==
    [][\A a \in pipeline_runs' \ pipeline_runs :
          /\ a.status = "SUCCESS" =>
                inv[a.run].committed = TablesOf(inv[a.run].engine)
          /\ a.status = "FAILED" =>
                \A t \in TablesOf(inv[a.run].engine) :
                    Keys(RowsFor(db'[t], a.run_date))
                        = Keys(RowsFor(inv[a.run].pre[t], a.run_date))]_vars

\* C8 (as claimed): an invocation that ends with a non-zero exit has logged its
\* FAILED audit row first, and one that ends with exit 0 has committed every unit
\* and logged SUCCESS.
C8_FailureLoggedThenSurfaced ==
    \A r \in Runs :
        inv[r].pc = "exited" =>
            /\ inv[r].exit = 1 =>
                  \E a \in pipeline_runs : a.run = r /\ a.status = "FAILED"
            /\ inv[r].exit = 0 =>
                  /\ inv[r].committed = TablesOf(inv[r].engine)
                  /\ \E a \in pipeline_runs : a.run = r /\ a.status = "SUCCESS"

\* C9: a step of an invocation for date d changes no input table, no row of another
\* date, no table of another pipeline, and removes nothing from the audit table.
C9_RunTouchesOnlyOwnDate ==
    [][\A r \in Runs :
          inv'[r] # inv[r] =>
              /\ inp' = inp
              /\ pipeline_runs \subseteq pipeline_runs'
              /\ \A t \in OutputTables, d \in Dates :
                    t \notin TablesOf(inv'[r].engine) \/ d # inv'[r].date =>
                        RowsFor(db'[t], d) = RowsFor(db[t], d)]_vars

\* C9 witness: a commit has replaced the rows of its date next to rows of another
\* date, which are as they were.
C9_Witness ==
    \E r \in Runs, d \in Dates :
        /\ inv[r].pc = "committed" /\ d # inv[r].date
        /\ RowsFor(db[Target(r)], inv[r].date) # RowsFor(db0[Target(r)], inv[r].date)
        /\ RowsFor(db[Target(r)], d) # {}
        /\ RowsFor(db[Target(r)], d) = RowsFor(db0[Target(r)], d)

\* C10 (as claimed): a step never turns a resolved trade break into an unresolved
\* one: if a break with the same date, trade_id and break_type is in the table after
\* the step, it is resolved.
C10_ResolvedSurvivesRerun ==
    [][\A x \in db["recon_trades"] :
          x.resolved =>
              \A y \in db'["recon_trades"] :
                  y.date = x.date /\ y.key = x.key => y.resolved]_vars

-----------------------------------------------------------------------------
(* Properties of the engines' results, over one pass on generated data *)

Internal(d) == inp["internal_trades"][d]

Broker(d) == inp["broker_trades"][d]

\* A run has replaced table t for date d.
Ran(t, d) == Committers(t, d) # {}

\* The recon_trades rows of date d for trade id, of the given break type.
BreakRows(d, id, type) ==
    {x \in QueryResult("recon_trades", d) :
        x.key.trade_id = id /\ x.key.break_type = type}

BreakRowsOf(d, id) == {x \in QueryResult("recon_trades", d) : x.key.trade_id = id}

SameFields(i, b) ==
    /\ i.price = b.price /\ i.quantity = b.quantity
    /\ i.fees = b.fees /\ i.settlement_date = b.settlement_date

\* C11: after a run of the matching engine for a date, a trade_id that both sides
\* have with identical price, quantity, fees and settlement_date has no break row,
\* and every break row is for a trade_id that one side lacks or whose two views
\* differ in one of the four fields.
C11_IdenticalTradesNoBreak ==
    \A d \in Dates :
        Ran("recon_trades", d) =>
            /\ \A i \in Internal(d), b \in Broker(d) :
                  i.trade_id = b.trade_id /\ SameFields(i, b) =>
                      BreakRowsOf(d, i.trade_id) = {}
            /\ \A x \in QueryResult("recon_trades", d) :
                  \/ ~(\E i \in Internal(d) : i.trade_id = x.key.trade_id)
                  \/ ~(\E b \in Broker(d) : b.trade_id = x.key.trade_id)
                  \/ \E i \in Internal(d), b \in Broker(d) :
                        /\ i.trade_id = x.key.trade_id /\ b.trade_id = x.key.trade_id
                        /\ ~SameFields(i, b)

\* C11 witness: a run has committed breaks for a date on which another trade is
\* identical on both sides.
C11_Witness ==
    \E d \in Dates :
        /\ Ran("recon_trades", d)
        /\ QueryResult("recon_trades", d) # {}
        /\ \E i \in Internal(d), b \in Broker(d) : i.trade_id = b.trade_id /\ SameFields(i, b)

\* C12: after a run of the matching engine, every trade only the internal side has
\* has exactly one break row: MISSING_AT_COUNTERPARTY, notional_impact = |principal|,
\* severity HIGH or CRITICAL.
C12_MissingAtCounterparty ==
    \A d \in Dates :
        Ran("recon_trades", d) =>
            \A i \in Internal(d) :
                (\A b \in Broker(d) : b.trade_id # i.trade_id) =>
                    /\ Cardinality(BreakRowsOf(d, i.trade_id)) = 1
                    /\ \A x \in BreakRowsOf(d, i.trade_id) :
                          /\ x.key.break_type = "MISSING_AT_COUNTERPARTY"
                          /\ x.key.notional_impact = Abs(i.principal)
                          /\ x.key.severity \in {"HIGH", "CRITICAL"}

\* C12 witness: a committed run where a trade of principal below the lowest
\* threshold is missing at the counterparty.
C12_Witness ==
    \E d \in Dates :
        /\ Ran("recon_trades", d)
        /\ \E i \in Internal(d) :
              /\ \A b \in Broker(d) : b.trade_id # i.trade_id
              /\ Abs(i.principal) < LowThreshold

\* C13: a run of the matching engine for a date with no internal trades that ends
\* normally has left exactly one row per counterparty trade, each
\* PHANTOM_AT_COUNTERPARTY with severity HIGH or CRITICAL, and is recorded SUCCESS
\* with that number of breaks.
C13_AbsentSideAllPhantom ==
    \A r \in Runs :
        /\ inv[r].pc = "exited" /\ inv[r].exit = 0
        /\ inv[r].engine = "trade_reconciliation"
        /\ Internal(inv[r].date) = {}
        => LET d == inv[r].date
           IN  /\ Cardinality(QueryResult("recon_trades", d)) = Cardinality(Broker(d))
               /\ \A b \in Broker(d) : Cardinality(BreakRowsOf(d, b.trade_id)) = 1
               /\ \A x \in QueryResult("recon_trades", d) :
                     /\ x.key.break_type = "PHANTOM_AT_COUNTERPARTY"
                     /\ x.key.severity \in {"HIGH", "CRITICAL"}
               /\ \E a \in pipeline_runs :
                     /\ a.run = r /\ a.status = "SUCCESS"
                     /\ a.breaks_found = Cardinality(Broker(d))

\* C13 witness: the run ended normally on 0 internal and 3 counterparty trades.
C13_Witness ==
    \E r \in Runs :
        /\ inv[r].pc = "exited" /\ inv[r].exit = 0
        /\ inv[r].engine = "trade_reconciliation"
        /\ Internal(inv[r].date) = {}
        /\ Cardinality(Broker(inv[r].date)) = 3

\* Whether field f of the two views of a trade gives a break.
Differs(i, b, type) ==
    CASE type = "PRICE_MISMATCH" -> Abs(i.price - b.price) > PriceTolerance
      [] type = "QUANTITY_MISMATCH" -> i.quantity # b.quantity
      [] type = "FEE_MISMATCH" -> Abs(i.fees - b.fees) > FeeTolerance
      [] type = "SETTLEMENT_DATE_MISMATCH" -> i.settlement_date # b.settlement_date

MismatchTypes ==
    {"PRICE_MISMATCH", "QUANTITY_MISMATCH", "FEE_MISMATCH", "SETTLEMENT_DATE_MISMATCH"}

\* C14: after a run of the matching engine, a trade_id both sides have has, for each
\* of the four fields, one break row when the field differs (price, fees: by more than
\* the tolerance) and none otherwise; the notional_impact is |internal_principal -
\* broker_principal| for price and quantity and |internal_fees - broker_fees| for fees.
\* BUY 100 @ 10.00 fee 1.00 against price 10.05: one row, PRICE_MISMATCH, impact 5.00.
C14_OneBreakPerDifferingField ==
    \A d \in Dates :
        Ran("recon_trades", d) =>
            \A i \in Internal(d), b \in Broker(d) :
                i.trade_id = b.trade_id =>
                    /\ \A type \in MismatchTypes :
                          Cardinality(BreakRows(d, i.trade_id, type))
                              = IF Differs(i, b, type) THEN 1 ELSE 0
                    /\ \A x \in BreakRowsOf(d, i.trade_id) :
                          /\ x.key.break_type \in MismatchTypes
                          /\ x.key.break_type \in {"PRICE_MISMATCH", "QUANTITY_MISMATCH"} =>
                                x.key.notional_impact = Abs(i.principal - b.principal)
                          /\ x.key.break_type = "FEE_MISMATCH" =>
                                x.key.notional_impact = Abs(i.fees - b.fees)
                    /\ /\ i.side = "BUY" /\ i.quantity = 100 /\ i.price = 10000
                       /\ i.fees = 1000 /\ b.price = 10050
                       /\ b.quantity = 100 /\ b.fees = 1000
                       /\ b.settlement_date = i.settlement_date
                       => /\ Cardinality(BreakRowsOf(d, i.trade_id)) = 1
                          /\ \A x \in BreakRowsOf(d, i.trade_id) :
                                /\ x.key.break_type = "PRICE_MISMATCH"
                                /\ x.key.notional_impact = 5000

\* C14 witness: a committed run where one trade differs in all four fields and has
\* four break rows.
C14_Witness ==
    \E d \in Dates :
        /\ Ran("recon_trades", d)
        /\ \E i \in Internal(d), b \in Broker(d) :
              /\ i.trade_id = b.trade_id
              /\ \A type \in MismatchTypes : Differs(i, b, type)
              /\ Cardinality(BreakRowsOf(d, i.trade_id)) = 4

PnlGroup(d, strat, sym, acct) ==
    {x \in Internal(d) : x.strategy = strat /\ x.symbol = sym /\ x.account = acct}

PnlRows(d, strat, sym, acct) ==
    {x \in QueryResult("daily_pnl", d) :
        x.key.strategy = strat /\ x.key.symbol = sym /\ x.key.account = acct}

\* C16: after a PnL run for a date, each (strategy, symbol, account) with at least one
\* internal trade has exactly one row, whose trade_count is the number of its trades,
\* each combination with no trade has no row, and the trade_counts add up to the
\* number of internal trades.
C16_OnePnlRowPerGroup ==
    \A d \in Dates :
        Ran("daily_pnl", d) =>
            /\ \A strat \in STRATEGIES, sym \in SYMBOLS, acct \in ACCOUNTS :
                  /\ Cardinality(PnlRows(d, strat, sym, acct))
                        = IF PnlGroup(d, strat, sym, acct) # {} THEN 1 ELSE 0
                  /\ \A x \in PnlRows(d, strat, sym, acct) :
                        x.key.trade_count = Cardinality(PnlGroup(d, strat, sym, acct))
            /\ \A x \in QueryResult("daily_pnl", d) :
                  /\ x.key.strategy \in STRATEGIES
                  /\ x.key.symbol \in SYMBOLS
                  /\ x.key.account \in ACCOUNTS
            /\ Sum(Keys(QueryResult("daily_pnl", d)), "trade_count")
                  = Cardinality(Internal(d))

\* C16 witness: a committed PnL run over three trades in two groups.
C16_Witness ==
    \E d \in Dates :
        /\ Ran("daily_pnl", d)
        /\ Cardinality(Internal(d)) = 3
        /\ Cardinality(QueryResult("daily_pnl", d)) = 2

\* C17: after a PnL run for a date, every row has net_pnl = realized_pnl -
\* fees_total, and the net_pnl of all rows add up to the principal of all internal
\* trades of the date minus their fees.
C17_PnlConservation ==
    \A d \in Dates :
        Ran("daily_pnl", d) =>
            /\ \A x \in QueryResult("daily_pnl", d) :
                  x.key.net_pnl = x.key.realized_pnl - x.key.fees_total
            /\ Sum(Keys(QueryResult("daily_pnl", d)), "net_pnl")
                  = Sum(Internal(d), "principal") - Sum(Internal(d), "fees")

\* C17 witness: a committed PnL run over two groups, one of a BUY and a SELL, with
\* fees paid.
C17_Witness ==
    \E d \in Dates :
        /\ Ran("daily_pnl", d)
        /\ Cardinality(QueryResult("daily_pnl", d)) = 2
        /\ \E x \in QueryResult("daily_pnl", d) :
              x.key.trade_count = 2 /\ x.key.fees_total > 0

\* The value of key (account, symbol) in a positions table of date d, 0 if absent.
NetPosition(t, d, acct, sym) ==
    LET R == {x \in inp[t][d] : x.account = acct /\ x.symbol = sym}
    IN  IF R = {} THEN 0 ELSE (CHOOSE x \in R : TRUE).net_position

PositionRows(d, acct, sym) ==
    {x \in QueryResult("recon_positions", d) :
        x.key.account = acct /\ x.key.symbol = sym}

\* C18: after a run of the position reconciler, every (account, symbol), on whichever
\* side it is present, has one break row when internal - counterparty (an absent side
\* counting 0) is not 0, with that difference, and none when it is 0; internal 500
\* against counterparty 480 gives one row with difference 20.
C18_PositionBreakOnDifference ==
    \A d \in Dates :
        Ran("recon_positions", d) =>
            \A acct \in ACCOUNTS, sym \in SYMBOLS :
                LET diff == NetPosition("internal_positions", d, acct, sym)
                                - NetPosition("broker_positions", d, acct, sym)
                IN  /\ Cardinality(PositionRows(d, acct, sym)) = IF diff # 0 THEN 1 ELSE 0
                    /\ \A x \in PositionRows(d, acct, sym) : x.key.difference = diff
                    /\ /\ NetPosition("internal_positions", d, acct, sym) = 500
                       /\ NetPosition("broker_positions", d, acct, sym) = 480
                       => \E x \in PositionRows(d, acct, sym) : x.key.difference = 20

\* C18 witness: a committed run where a key is 500 against 480, another key is on the
\* counterparty side only, and a third is equal on both sides.
C18_Witness ==
    \E d \in Dates :
        /\ Ran("recon_positions", d)
        /\ \E x \in QueryResult("recon_positions", d) :
              x.key.internal_value = 500 /\ x.key.broker_value = 480
        /\ \E b \in inp["broker_positions"][d] :
              /\ \A i \in inp["internal_positions"][d] :
                    <<i.account, i.symbol>> # <<b.account, b.symbol>>
              /\ PositionRows(d, b.account, b.symbol) # {}
        /\ \E i \in inp["internal_positions"][d] :
              /\ i \in inp["broker_positions"][d]
              /\ PositionRows(d, i.account, i.symbol) = {}

\* The trades of a side, and what the aggregator made of them, as loaded for d.
TradesOf(side, d) == inp[side \o "_trades"][d]

Buys(T) == {x \in T : x.side = "BUY"}

Sells(T) == {x \in T : x.side # "BUY"}

\* C19: for each side, the loaded positions hold exactly one row per (account,
\* symbol) that has a trade, with net_position the BUY quantity minus the SELL
\* quantity of the group, and the loaded cash exactly one row per (account, currency)
\* with net_cash_balance the principal of the group; so the position rows add up to
\* the signed quantity and the cash rows to the principal of the whole trade set.
C19_AggregatorSums ==
    \A side \in {"internal", "broker"} :
        LET T == TradesOf(side, LoadDate)
            P == inp[side \o "_positions"][LoadDate]
            C == inp[side \o "_cash"][LoadDate]
        IN  /\ \A acct \in ACCOUNTS, sym \in SYMBOLS :
                  LET G == {x \in T : x.account = acct /\ x.symbol = sym}
                      R == {x \in P : x.account = acct /\ x.symbol = sym}
                  IN  /\ Cardinality(R) = IF G # {} THEN 1 ELSE 0
                      /\ \A x \in R :
                            x.net_position
                                = Sum(Buys(G), "quantity") - Sum(Sells(G), "quantity")
            /\ \A acct \in ACCOUNTS, ccy \in CURRENCIES :
                  LET G == {x \in T : x.account = acct /\ x.currency = ccy}
                      R == {x \in C : x.account = acct /\ x.currency = ccy}
                  IN  /\ Cardinality(R) = IF G # {} THEN 1 ELSE 0
                      /\ \A x \in R : x.net_cash_balance = Sum(G, "principal")
            /\ \A x \in P : x.account \in ACCOUNTS /\ x.symbol \in SYMBOLS
            /\ \A x \in C : x.account \in ACCOUNTS /\ x.currency \in CURRENCIES
            /\ Sum(P, "net_position") = Sum(Buys(T), "quantity") - Sum(Sells(T), "quantity")
            /\ Sum(C, "net_cash_balance") = Sum(T, "principal")

\* C19 witness: a load whose internal trades have a group of a BUY and a SELL and a
\* second group, and whose counterparty trades are in two accounts.
C19_Witness ==
    /\ \E x \in inp["internal_positions"][LoadDate] : x.net_position = 90
    /\ Cardinality(inp["internal_positions"][LoadDate]) = 2
    /\ Cardinality(inp["broker_cash"][LoadDate]) = 2

LoadedTrades == UNION {inp[t][d] : t \in {"internal_trades", "broker_trades"}, d \in Dates}

\* The principal of trade x as the data model gives it.
PrincipalAsSpecified(x) ==
    /\ x.side = "BUY" => x.principal = -(x.quantity * x.price + x.fees)
    /\ x.side = "SELL" => x.principal = x.quantity * x.price - x.fees

ReadsMalformed(r) == InFlight(r) /\ ~InputValid(inp, Target(r), inv[r].date)

\* C21 (as claimed): a run whose input for the date has a malformed row commits no
\* replacement of its output table; when it has failed on the row the table holds
\* for the date what it held before the run, and the run ends with its FAILED audit
\* row written.
C21_MalformedRowFailsRun ==
    [][\A r \in Runs :
          /\ ReadsMalformed(r) => inv'[r].pc # "committed"
          /\ inv[r].pc = "except" /\ inv[r].fail = "validation" =>
                /\ RowsFor(db[Target(r)], inv[r].date)
                      = RowsFor(inv[r].pre[Target(r)], inv[r].date)
                /\ inv'[r].pc = "exited" =>
                      \E a \in pipeline_runs' : a.run = r /\ a.status = "FAILED"]_vars

Loader(r) == inv[r].engine = "daily_etl_load"

\* C22: when a load for date d has loaded its last table, each table whose file it
\* found holds for d exactly the rows of that file, whatever it held before; and the
\* rows a load copies are never rows the table keeps, so no row is there twice.
C22_LoadReplacesRowsOfDate ==
    \A r \in Runs :
        /\ Loader(r) /\ inv[r].pc = "log" =>
              \A t \in InputTables :
                  inv[r].files[t].exists => inp[t][inv[r].date] = inv[r].files[t].rows
        /\ Loader(r) /\ inv[r].pc = "copied" =>
              (inp[LoadTable(r)][inv[r].date] \ inv[r].del) \cap inv[r].ins = {}

\* C22 witness: a load of all six files has finished, after an earlier load of
\* other files for the same date has.
C22_Witness ==
    \E r, s \in Runs :
        /\ Loader(r) /\ inv[r].pc = "log"
        /\ Loader(s) /\ inv[s].pc = "exited" /\ inv[s].exit = 0
        /\ inv[s].date = inv[r].date
        /\ \A t \in InputTables :
              /\ inv[r].files[t].exists /\ inv[s].files[t].exists
        /\ inv[s].files["internal_trades"].rows # inv[r].files["internal_trades"].rows

\* The rows the tables took from the files in invocation r of the loader.
RowsLoaded(r) ==
    LET n[i \in 0..Len(LoadOrder)] ==
            IF i = 0 THEN 0
            ELSE n[i - 1] + IF inv[r].files[LoadOrder[i]].exists
                            THEN Cardinality(inv[r].files[LoadOrder[i]].rows)
                            ELSE 0
    IN  n[Len(LoadOrder)]

\* The break rows of the date in the output tables of invocation r.
BreaksLeft(r) ==
    LET tabs == Units(inv[r].engine)
        n[i \in 0..Len(tabs)] ==
            IF i = 0 THEN 0
            ELSE n[i - 1] + Cardinality(QueryResult(tabs[i], inv[r].date))
    IN  n[Len(tabs)]

\* C23: the count in a SUCCESS row is the count of the run: rows_processed of a load
\* is the number of rows it loaded, breaks_found of a reconciliation is the number of
\* break rows it left in its output tables for the date.
C23_SummaryCountIsActual ==
    [][\A a \in pipeline_runs' \ pipeline_runs :
          a.status = "SUCCESS" =>
              /\ a.pipeline_name = "daily_etl_load" =>
                    a.rows_processed = RowsLoaded(a.run)
              /\ a.pipeline_name \in {"trade_reconciliation",
                                       "position_cash_reconciliation"} =>
                    a.breaks_found = BreaksLeft(a.run)]_vars

\* C24: an invocation of the position-and-cash pipeline replaces the rows of both
\* its output tables for the date or of neither: one that has failed or has ended
\* has committed both units or none, and one recorded FAILED has committed none.
C24_PositionAndCashBothOrNeither ==
    \A r \in Runs :
        inv[r].engine = "position_cash_reconciliation" =>
            /\ inv[r].pc \in {"except", "exited"} =>
                  inv[r].committed \in {{}, {"recon_positions", "recon_cash"}}
            /\ (\E a \in pipeline_runs : a.run = r /\ a.status = "FAILED") =>
                  inv[r].committed = {}

\* C25: every counterparty trade that corrupt_broker_data makes of a generated
\* internal trade has a positive quantity.
C25_BrokerQuantityPositive ==
    \A x \in inp["broker_trades"][LoadDate] : x.quantity > 0

====
